---------------------------- MODULE Spec2Model ----------------------------
(***************************************************************************)
(* A model of gfx_window_glutin (src/src/lib.rs): the glue that builds a   *)
(* glutin windowed context, creates a gfx_device_gl device and factory on  *)
(* it, allocates the main colour / depth-stencil targets at the window's   *)
(* Dimensions, and re-allocates them when the window's Dimensions change.  *)
(*                                                                         *)
(* glutin and gfx_device_gl are collaborators whose code is not part of    *)
(* the repository.  Their calls are modelled by their contract:            *)
(*   build_windowed  succeeds or fails with a CreationError,               *)
(*   make_current    succeeds or fails (the code unwraps the failure),     *)
(*   create_main_targets_raw(dim, cs, ds) yields two views carrying dim.   *)
(***************************************************************************)
EXTENDS Integers, Sequences, FiniteSets, TLC

VARIABLES
    pc,            \* position of the caller: inside an init* call, idle, returned, panicked
    entry,         \* the init* entry point the caller uses
    color_format,  \* format::Format of the colour target: <<surface, channel>>
    ds_format,     \* format::Format of the depth-stencil target
    context,       \* the ContextBuilder's pixel-format requirements
    ctxState,      \* "Unbuilt", "NotCurrent" or "Current"
    window,        \* the OS window: physical size, hidpi factor, applied multisampling
    device,        \* TRUE once device_gl::create returned (device, factory)
    color_view,    \* the caller-held render-target view (NoView before init returns)
    ds_view,       \* the caller-held depth-stencil view
    result,        \* the value the last call returned
    lastOp,        \* the last operation that acted
    old_dimensions,\* the old_dimensions the last call compared the window's with
    allocs,        \* number of create_main_targets_raw calls so far
    builds,        \* number of build_windowed calls so far
    build_result,  \* what build_windowed returned: "Ok" or a CreationError
    trace          \* the calls the current (or last) entry point made, in order

vars == <<pc, entry, color_format, ds_format, context, ctxState, window, device,
          color_view, ds_view, result, lastOp, old_dimensions, allocs, builds,
          build_result, trace>>

-----------------------------------------------------------------------------
(* Bounds of the model.                                                    *)

\* at most this many target allocations in one behaviour
MaxAllocs == 3

-----------------------------------------------------------------------------
(* Widths of the integer types the code converts into.                     *)

\* texture::Size is u16: `size.width as _` saturates at u16::MAX
SizeMax == 65535
\* texture::NumSamples is u8: `as texture::NumSamples` keeps the low 8 bits
NumSamplesModulus == 256
\* get_total_bits / get_alpha_stencil_bits return u8: u8 - u8 wraps modulo 2^8
BitsModulus == 256

-----------------------------------------------------------------------------
(* Input domains.                                                          *)

\* Option<u16>: None is <<>>, Some(x) is <<x>>
NoneMs   == <<>>
NoView   == [none |-> TRUE]
NoResult == [kind |-> "Nothing"]

\* SurfaceType descriptors by their metadata: total bits and alpha/stencil bits
TotalBitsValues == {8, 32, 128}
AlphaStencilBitsValues == {0, 8, 32}
SurfaceTypes ==
    {[total |-> t, alpha |-> a] : t \in TotalBitsValues, a \in AlphaStencilBitsValues}
ValidSurfaceTypes == {s \in SurfaceTypes : s.alpha <= s.total}
ChannelTypes == {"Unorm", "Srgb", "Float"}

\* Rgba8 and DepthStencil of gfx_core::format, the formats of the doc example
Rgba8 == <<[total |-> 32, alpha |-> 8], "Unorm">>
DepthStencil == <<[total |-> 32, alpha |-> 8], "Unorm">>

EntryPoints == {"init", "init_raw", "init_existing", "init_existing_raw"}
BuildingEntryPoints == {"init", "init_raw"}
TypedEntryPoints == {"init", "init_existing"}

CreationErrors == {"NoAvailablePixelFormat", "OsError"}

Widths == {800, 1024}
Heights == {600, 768}
\* hidpi factors in halves: 1.0 and 1.5
HidpiFactors2 == {2, 3}
Multisamplings == {NoneMs, <<0>>, <<4>>}

Windows ==
    [pw : Widths, ph : Heights, hidpi2 : HidpiFactors2, ms : Multisamplings]

-----------------------------------------------------------------------------
(* get_window_dimensions (lib.rs 134-143).                                 *)

Min(a, b) == IF a <= b THEN a ELSE b

\* window.inner_size(): the logical size, physical / hidpi, as exact fractions
inner_size(w) ==
    [wnum |-> w.pw * 2, hnum |-> w.ph * 2, den |-> w.hidpi2]

\* window.hidpi_factor(), in halves
hidpi_factor(w) == w.hidpi2

\* LogicalSize::to_physical(factor): logical * factor, as exact fractions
to_physical(size, factor2) ==
    [wnum |-> size.wnum * factor2, hnum |-> size.hnum * factor2, den |-> size.den * 2]

\* `x as u16` of a non-negative f64: truncate, then saturate
AsSize(num, den) == Min(num \div den, SizeMax)

\* Option::unwrap_or
unwrap_or(opt, default) == IF opt = NoneMs THEN default ELSE opt[1]

\* `x as texture::NumSamples` of a u16
AsNumSamples(x) == x % NumSamplesModulus

\* aa.into(): gfx_core's From<NumSamples> for texture::AaMode
AaModeFrom(ns) == IF ns > 1 THEN <<"Multi", ns>> ELSE <<"Single">>

get_window_dimensions(w) ==
    LET size == to_physical(inner_size(w), hidpi_factor(w))
        width == AsSize(size.wnum, size.den)
        height == AsSize(size.hnum, size.den)
        aa == AsNumSamples(unwrap_or(w.ms, 0))
    IN  <<width, height, 1, AaModeFrom(aa)>>

-----------------------------------------------------------------------------
(* Views.                                                                  *)

\* device_gl::create_main_targets_raw(dim, color_surface, ds_surface): the
\* n-th allocation; both views are created with the Dimensions passed in.
create_main_targets_raw(dim, cs, ds, n) ==
    <<[dim |-> dim, surface |-> cs, alloc |-> n],
      [dim |-> dim, surface |-> ds, alloc |-> n]>>

\* Typed::new: tags a raw handle with its format type, nothing else
Typed_new(raw, tag) == [raw |-> raw, tag |-> tag]

IsTyped(v) == "raw" \in DOMAIN v
RawOf(v) == IF IsTyped(v) THEN v.raw ELSE v

\* handle.get_dimensions()
get_dimensions(v) == RawOf(v).dim

-----------------------------------------------------------------------------
(* Format negotiation (lib.rs 162-172).                                    *)

\* SurfaceType::get_total_bits / get_alpha_stencil_bits
get_total_bits(surface) == surface.total
get_alpha_stencil_bits(surface) == surface.alpha

\* u8 - u8
Sub8(a, b) == (a - b) % BitsModulus

with_depth_buffer(ctx, bits) == [ctx EXCEPT !.depth = bits]
with_stencil_buffer(ctx, bits) == [ctx EXCEPT !.stencil = bits]
with_pixel_format(ctx, color_bits, alpha_bits) ==
    [ctx EXCEPT !.color = color_bits, !.alpha = alpha_bits]
with_srgb(ctx, enabled) == [ctx EXCEPT !.srgb = enabled]

\* a negotiation that requests the total bits as colour and depth bits
NegotiatedContext_TotalBits(ctx, cf, df) ==
    LET color_total_bits == get_total_bits(cf[1])
        alpha_bits == get_alpha_stencil_bits(cf[1])
        depth_total_bits == get_total_bits(df[1])
        stencil_bits == get_alpha_stencil_bits(df[1])
    IN  with_srgb(
          with_pixel_format(
            with_stencil_buffer(with_depth_buffer(ctx, depth_total_bits), stencil_bits),
            color_total_bits, alpha_bits),
          cf[2] = "Srgb")

\* a negotiation that asks for sRGB for every channel type but Unorm
NegotiatedContext_NotUnorm(ctx, cf, df) ==
    LET color_total_bits == get_total_bits(cf[1])
        alpha_bits == get_alpha_stencil_bits(cf[1])
        depth_total_bits == get_total_bits(df[1])
        stencil_bits == get_alpha_stencil_bits(df[1])
    IN  with_srgb(
          with_pixel_format(
            with_stencil_buffer(
              with_depth_buffer(ctx, Sub8(depth_total_bits, stencil_bits)),
              stencil_bits),
            Sub8(color_total_bits, alpha_bits), alpha_bits),
          cf[2] # "Unorm")

\* the ContextBuilder init_raw hands to build_windowed
NegotiatedContext(ctx, cf, df) ==
    LET color_total_bits == get_total_bits(cf[1])
        alpha_bits == get_alpha_stencil_bits(cf[1])
        depth_total_bits == get_total_bits(df[1])
        stencil_bits == get_alpha_stencil_bits(df[1])
    IN  with_srgb(
          with_pixel_format(
            with_stencil_buffer(
              with_depth_buffer(ctx, Sub8(depth_total_bits, stencil_bits)),
              stencil_bits),
            Sub8(color_total_bits, alpha_bits), alpha_bits),
          cf[2] = "Srgb")

\* ContextBuilders the caller may pass in
ContextBuilders ==
    {[depth |-> 24, stencil |-> 8, color |-> 24, alpha |-> 8, srgb |-> FALSE],
     [depth |-> 0, stencil |-> 0, color |-> 0, alpha |-> 0, srgb |-> TRUE]}

-----------------------------------------------------------------------------
(* The init* entry points (lib.rs 55-88, 110-132, 146-180, 183-205).       *)

\* init_raw 163-172: apply the format parameters to the ContextBuilder
Negotiate ==
    /\ pc = "call"
    /\ context' = NegotiatedContext(context, color_format, ds_format)
    /\ trace' = Append(trace, "configure")
    /\ pc' = "build"
    /\ UNCHANGED <<entry, color_format, ds_format, ctxState, window, device,
                   color_view, ds_view, result, lastOp, old_dimensions, allocs,
                   builds, build_result>>

\* the conversion the ? operator applies to the error: From<CreationError> for
\* CreationError
From_from(e) == e

\* a build step that unwraps the creation error instead of returning it
BuildWindowed_Unwrap ==
    /\ pc = "build"
    /\ builds' = builds + 1
    /\ trace' = Append(trace, "build_windowed")
    /\ \E outcome \in {"Ok"} \cup CreationErrors :
         /\ build_result' = outcome
         /\ IF outcome = "Ok"
            THEN /\ ctxState' = "NotCurrent"
                 /\ pc' = "make_current"
                 /\ UNCHANGED <<result, lastOp>>
            ELSE /\ result' = [kind |-> "Panic"]
                 /\ pc' = "panicked"
                 /\ lastOp' = entry
                 /\ UNCHANGED ctxState
    /\ UNCHANGED <<entry, color_format, ds_format, context, window, device,
                   color_view, ds_view, old_dimensions, allocs>>

\* a build step after which the device is created without make_current
BuildWindowed_SkipsMakeCurrent ==
    /\ pc = "build"
    /\ builds' = builds + 1
    /\ trace' = Append(trace, "build_windowed")
    /\ \E outcome \in {"Ok"} \cup CreationErrors :
         /\ build_result' = outcome
         /\ IF outcome = "Ok"
            THEN /\ ctxState' = "NotCurrent"
                 /\ pc' = "create_device"
                 /\ UNCHANGED <<result, lastOp>>
            ELSE /\ result' = [kind |-> "Err", val |-> From_from(outcome)]
                 /\ pc' = "returned"
                 /\ lastOp' = entry
                 /\ UNCHANGED ctxState
    /\ UNCHANGED <<entry, color_format, ds_format, context, window, device,
                   color_view, ds_view, old_dimensions, allocs>>

\* init_raw 173: build_windowed(window, event_loop)?  An Err returns at once;
\* in init the ? of line 79 hands the error on once more.
BuildWindowed ==
    /\ pc = "build"
    /\ builds' = builds + 1
    /\ trace' = Append(trace, "build_windowed")
    /\ \E outcome \in {"Ok"} \cup CreationErrors :
         /\ build_result' = outcome
         /\ IF outcome = "Ok"
            THEN /\ ctxState' = "NotCurrent"
                 /\ pc' = "make_current"
                 /\ UNCHANGED <<result, lastOp>>
            ELSE /\ result' = [kind |-> "Err",
                               val |-> IF entry = "init"
                                       THEN From_from(From_from(outcome))
                                       ELSE From_from(outcome)]
                 /\ pc' = "returned"
                 /\ lastOp' = entry
                 /\ UNCHANGED ctxState
    /\ UNCHANGED <<entry, color_format, ds_format, context, window, device,
                   color_view, ds_view, old_dimensions, allocs>>

\* init_existing_raw 194: window.make_current().unwrap()
MakeCurrent ==
    /\ pc = "make_current"
    /\ trace' = Append(trace, "make_current")
    /\ \E ok \in BOOLEAN :
         IF ok
         THEN /\ ctxState' = "Current"
              /\ pc' = "create_device"
              /\ UNCHANGED <<result, lastOp>>
         ELSE /\ result' = [kind |-> "Panic"]
              /\ pc' = "panicked"
              /\ lastOp' = entry
              /\ UNCHANGED ctxState
    /\ UNCHANGED <<entry, color_format, ds_format, context, window, device,
                   color_view, ds_view, old_dimensions, allocs, builds, build_result>>

\* init_existing_raw 195-196: device_gl::create(|s| window.get_proc_address(s))
CreateDevice ==
    /\ pc = "create_device"
    /\ device' = TRUE
    /\ trace' = Append(trace, "device_gl::create")
    /\ pc' = "main_targets"
    /\ UNCHANGED <<entry, color_format, ds_format, context, ctxState, window,
                   color_view, ds_view, result, lastOp, old_dimensions, allocs,
                   builds, build_result>>

\* what the entry point hands back around the two raw views:
\* init / init_existing wrap them with Typed::new, init / init_raw return Ok(..),
\* init_existing / init_existing_raw return the plain tuple
Returned(e, cv, dv, cf, df) ==
    LET views == IF e \in TypedEntryPoints
                 THEN <<Typed_new(cv, cf), Typed_new(dv, df)>>
                 ELSE <<cv, dv>>
    IN  [kind |-> IF e \in BuildingEntryPoints THEN "Ok" ELSE "Tuple", val |-> views]

\* init_existing_raw 199-204 and the return of the entry point
CreateMainTargets ==
    /\ pc = "main_targets"
    /\ LET dim == get_window_dimensions(window)
           views == create_main_targets_raw(dim, color_format[1], ds_format[1], allocs + 1)
           ret == Returned(entry, views[1], views[2], color_format, ds_format)
       IN  /\ result' = ret
           /\ color_view' = ret.val[1]
           /\ ds_view' = ret.val[2]
    /\ allocs' = allocs + 1
    /\ trace' = Append(Append(trace, "get_window_dimensions"), "create_main_targets_raw")
    /\ lastOp' = entry
    /\ pc' = "idle"
    /\ UNCHANGED <<entry, color_format, ds_format, context, ctxState, window,
                   device, old_dimensions, builds, build_result>>

NextInit ==
    \/ Negotiate
    \/ BuildWindowed
    \/ MakeCurrent
    \/ CreateDevice
    \/ CreateMainTargets

-----------------------------------------------------------------------------
(* The resize synchroniser (lib.rs 207-262).                               *)

\* Dimensions a caller may pass as old_dimensions
AaModes == {<<"Single">>, <<"Multi", 4>>}
OldDimensions ==
    {<<w, h, l, aa>> : w \in Widths, h \in Heights, l \in {1, 2}, aa \in AaModes}
NoDimensions == <<>>

\* the user resizes the window, possibly onto a monitor of another hidpi factor
Resize ==
    /\ pc = "idle"
    /\ \E w \in Widths, h \in Heights, f \in HidpiFactors2 :
         /\ <<w, h>> # <<window.pw, window.ph>>
         /\ window' = [window EXCEPT !.pw = w, !.ph = h, !.hidpi2 = f]
    /\ lastOp' = "resize"
    /\ UNCHANGED <<pc, entry, color_format, ds_format, context, ctxState, device,
                   color_view, ds_view, result, old_dimensions, allocs, builds,
                   build_result, trace>>

\* an update_views_raw that compares width and height only
update_views_raw_SizeOnly(w, old, cf, df, n) ==
    LET dim == get_window_dimensions(w)
    IN  IF dim[1] # old[1] \/ dim[2] # old[2]
        THEN [kind |-> "Some", val |-> create_main_targets_raw(dim, cf[1], df[1], n)]
        ELSE [kind |-> "None"]

\* an update_views_raw that allocates at old_dimensions
update_views_raw_AtOld(w, old, cf, df, n) ==
    LET dim == get_window_dimensions(w)
    IN  IF dim # old
        THEN [kind |-> "Some", val |-> create_main_targets_raw(old, cf[1], df[1], n)]
        ELSE [kind |-> "None"]

\* update_views_raw 225-244; n numbers the allocation it may make
update_views_raw(w, old, cf, df, n) ==
    LET dim == get_window_dimensions(w)
    IN  IF dim # old
        THEN [kind |-> "Some", val |-> create_main_targets_raw(dim, cf[1], df[1], n)]
        ELSE [kind |-> "None"]

\* the calls update_views_raw made to return r
update_views_raw_calls(r) ==
    IF r.kind = "Some"
    THEN <<"get_window_dimensions", "create_main_targets_raw">>
    ELSE <<"get_window_dimensions">>

\* a call of update_views_raw with any old_dimensions
UpdateViewsRaw ==
    /\ pc = "idle"
    /\ allocs < MaxAllocs
    /\ \E old \in OldDimensions :
         /\ old_dimensions' = old
         /\ result' = update_views_raw(window, old, color_format, ds_format, allocs + 1)
    /\ allocs' = IF result'.kind = "Some" THEN allocs + 1 ELSE allocs
    /\ trace' = update_views_raw_calls(result')
    /\ lastOp' = "update_views_raw"
    /\ UNCHANGED <<pc, entry, color_format, ds_format, context, ctxState, window,
                   device, color_view, ds_view, builds, build_result>>

\* an update_views that stores the new colour view only
update_views_ColorOnly(w, cv, dv, n) ==
    LET dim == get_dimensions(cv)
    IN  IF dim # get_dimensions(dv)
        THEN [panicked |-> TRUE, color_view |-> cv, ds_view |-> dv, allocated |-> 0,
              calls |-> <<"get_dimensions", "assert_eq">>]
        ELSE LET r == update_views_raw(w, dim, cv.tag, dv.tag, n)
                 calls == <<"get_dimensions", "assert_eq">> \o update_views_raw_calls(r)
             IN  IF r.kind = "Some"
                 THEN [panicked |-> FALSE,
                       color_view |-> Typed_new(r.val[1], cv.tag),
                       ds_view |-> dv,
                       allocated |-> 1,
                       calls |-> calls \o <<"store color_view">>]
                 ELSE [panicked |-> FALSE, color_view |-> cv, ds_view |-> dv,
                       allocated |-> 0, calls |-> calls]

\* an update_views that stores the new depth-stencil view only
update_views_DepthOnly(w, cv, dv, n) ==
    LET dim == get_dimensions(cv)
    IN  IF dim # get_dimensions(dv)
        THEN [panicked |-> TRUE, color_view |-> cv, ds_view |-> dv, allocated |-> 0,
              calls |-> <<"get_dimensions", "assert_eq">>]
        ELSE LET r == update_views_raw(w, dim, cv.tag, dv.tag, n)
                 calls == <<"get_dimensions", "assert_eq">> \o update_views_raw_calls(r)
             IN  IF r.kind = "Some"
                 THEN [panicked |-> FALSE,
                       color_view |-> cv,
                       ds_view |-> Typed_new(r.val[2], dv.tag),
                       allocated |-> 1,
                       calls |-> calls \o <<"store ds_view">>]
                 ELSE [panicked |-> FALSE, color_view |-> cv, ds_view |-> dv,
                       allocated |-> 0, calls |-> calls]

\* an update_views without the assertion
update_views_NoAssert(w, cv, dv, n) ==
    LET dim == get_dimensions(cv)
        r == update_views_raw(w, dim, cv.tag, dv.tag, n)
        calls == <<"get_dimensions">> \o update_views_raw_calls(r)
    IN  IF r.kind = "Some"
        THEN [panicked |-> FALSE,
              color_view |-> Typed_new(r.val[1], cv.tag),
              ds_view |-> Typed_new(r.val[2], dv.tag),
              allocated |-> 1,
              calls |-> calls \o <<"store color_view", "store ds_view">>]
        ELSE [panicked |-> FALSE, color_view |-> cv, ds_view |-> dv,
              allocated |-> 0, calls |-> calls]

\* update_views 208-222 applied to the views cv, dv: whether the assertion
\* failed, the two handles afterwards, the allocations and the calls made
update_views(w, cv, dv, n) ==
    LET dim == get_dimensions(cv)
    IN  IF dim # get_dimensions(dv)
        THEN [panicked |-> TRUE, color_view |-> cv, ds_view |-> dv, allocated |-> 0,
              calls |-> <<"get_dimensions", "assert_eq">>]
        ELSE LET r == update_views_raw(w, dim, cv.tag, dv.tag, n)
                 calls == <<"get_dimensions", "assert_eq">> \o update_views_raw_calls(r)
             IN  IF r.kind = "Some"
                 THEN [panicked |-> FALSE,
                       color_view |-> Typed_new(r.val[1], cv.tag),
                       ds_view |-> Typed_new(r.val[2], dv.tag),
                       allocated |-> 1,
                       calls |-> calls \o <<"store color_view", "store ds_view">>]
                 ELSE [panicked |-> FALSE, color_view |-> cv, ds_view |-> dv,
                       allocated |-> 0, calls |-> calls]

\* a call of update_views on the caller-held typed pair
UpdateViews ==
    /\ pc = "idle"
    /\ allocs < MaxAllocs
    /\ IsTyped(color_view) /\ IsTyped(ds_view)
    /\ LET u == update_views(window, color_view, ds_view, allocs + 1)
       IN  /\ pc' = IF u.panicked THEN "panicked" ELSE pc
           /\ result' = [kind |-> IF u.panicked THEN "Panic" ELSE "Unit"]
           /\ color_view' = u.color_view
           /\ ds_view' = u.ds_view
           /\ allocs' = allocs + u.allocated
           /\ trace' = u.calls
           /\ old_dimensions' = IF u.panicked THEN NoDimensions
                                 ELSE get_dimensions(color_view)
    /\ lastOp' = "update_views"
    /\ UNCHANGED <<entry, color_format, ds_format, context, ctxState, window,
                   device, builds, build_result>>

\* a new_views that passes height and width in the wrong order
new_views_Swapped(w, cf, df, n) ==
    LET dim == get_window_dimensions(w)
        raw == create_main_targets_raw(<<dim[2], dim[1], dim[3], dim[4]>>,
                                       cf[1], df[1], n)
    IN  <<Typed_new(raw[1], cf), Typed_new(raw[2], df)>>

\* new_views 248-262; n numbers the allocation it makes
new_views(w, cf, df, n) ==
    LET dim == get_window_dimensions(w)
        raw == create_main_targets_raw(dim, cf[1], df[1], n)
    IN  <<Typed_new(raw[1], cf), Typed_new(raw[2], df)>>

\* a call of new_views
NewViews ==
    /\ pc = "idle"
    /\ allocs < MaxAllocs
    /\ result' = [kind |-> "Pair",
                  val |-> new_views(window, color_format, ds_format, allocs + 1)]
    /\ allocs' = allocs + 1
    /\ trace' = <<"get_window_dimensions", "create_main_targets_raw">>
    /\ old_dimensions' = NoDimensions
    /\ lastOp' = "new_views"
    /\ UNCHANGED <<pc, entry, color_format, ds_format, context, ctxState, window,
                   device, color_view, ds_view, builds, build_result>>

\* a caller of update_views may pass any two typed views: here it keeps its
\* colour view and pairs it with the depth-stencil view of the last new_views
CallerPairsOtherDepthView ==
    /\ pc = "idle"
    /\ result.kind = "Pair"
    /\ IsTyped(color_view)
    /\ ds_view' = result.val[2]
    /\ lastOp' = "caller"
    /\ UNCHANGED <<pc, entry, color_format, ds_format, context, ctxState, window,
                   device, color_view, result, old_dimensions, allocs, builds,
                   build_result, trace>>

-----------------------------------------------------------------------------
(* Specifications.                                                         *)

InitWith(colorFormats, dsFormats, builders, windows) ==
    /\ entry \in EntryPoints
    /\ color_format \in colorFormats
    /\ ds_format \in dsFormats
    /\ context \in builders
    /\ window \in windows
    /\ pc = IF entry \in BuildingEntryPoints THEN "call" ELSE "make_current"
    /\ ctxState = IF entry \in BuildingEntryPoints THEN "Unbuilt" ELSE "NotCurrent"
    /\ device = FALSE
    /\ color_view = NoView
    /\ ds_view = NoView
    /\ result = NoResult
    /\ lastOp = "none"
    /\ old_dimensions = NoDimensions
    /\ allocs = 0
    /\ builds = 0
    /\ build_result = "none"
    /\ trace = <<>>

DefaultBuilder == [depth |-> 24, stencil |-> 8, color |-> 24, alpha |-> 8, srgb |-> FALSE]

\* the adapter used as documented: one init* call, then resizes and synchroniser calls
Init == InitWith({Rgba8}, {DepthStencil}, {DefaultBuilder}, Windows)

Next ==
    \/ NextInit
    \/ Resize
    \/ UpdateViewsRaw
    \/ UpdateViews
    \/ NewViews

Spec == Init /\ [][Next]_vars

\* the same, with a caller that also passes update_views views of different pairs
NextCaller ==
    \/ Next
    \/ CallerPairsOtherDepthView

SpecCaller == Init /\ [][NextCaller]_vars

\* the init* entry points over every format and ContextBuilder
FormatWindows == {w \in Windows : w.pw = 800 /\ w.ph = 600 /\ w.hidpi2 = 2}

InitFormats ==
    InitWith(ValidSurfaceTypes \X ChannelTypes, ValidSurfaceTypes \X {"Unorm"},
             ContextBuilders, FormatWindows)

SpecFormats == InitFormats /\ [][NextInit]_vars


-----------------------------------------------------------------------------
(* Properties.                                                             *)

\* the window's Dimensions, field by field: physical width, physical height,
\* one layer, the applied multisample count or 0 if there is none
WindowDimensions ==
    <<window.pw, window.ph, 1,
      IF window.ms = NoneMs THEN AaModeFrom(0) ELSE AaModeFrom(window.ms[1])>>

HasViews(r) == r.kind \in {"Ok", "Tuple", "Some", "Pair"}

\* C1: update_views_raw returns None iff the window's current Dimensions equal
\* old_dimensions in all four fields, returns Some iff at least one field
\* differs, and the views of a Some are allocated at the window's current
\* Dimensions, not at old_dimensions.
C1_UpdateViewsRawIffChanged ==
    lastOp = "update_views_raw" =>
        LET dim == get_window_dimensions(window)
        IN  /\ result.kind \in {"None", "Some"}
            /\ (result.kind = "None") <=> (\A i \in 1..4 : dim[i] = old_dimensions[i])
            /\ (result.kind = "Some") <=> (\E i \in 1..4 : dim[i] # old_dimensions[i])
            /\ result.kind = "Some" =>
                 /\ result.val[1].dim = dim
                 /\ result.val[2].dim = dim
                 /\ result.val[1].dim # old_dimensions

\* an update_views_raw call whose old_dimensions differ from the window's in
\* the multisample field alone returned new views
C1_Witness ==
    /\ lastOp = "update_views_raw"
    /\ result.kind = "Some"
    /\ \A i \in 1..3 : old_dimensions[i] = get_window_dimensions(window)[i]
    /\ old_dimensions[4] # get_window_dimensions(window)[4]

\* C2: update_views on a pair whose Dimensions equal the window's leaves both
\* handles unchanged and allocates nothing; on a matching pair whose Dimensions
\* differ from the window's it overwrites both handles in the same call.
C2_UpdateViewsBothOrNeither ==
    [][(UpdateViews /\ get_dimensions(color_view) = get_dimensions(ds_view)) =>
         IF get_dimensions(color_view) = get_window_dimensions(window)
         THEN /\ color_view' = color_view
              /\ ds_view' = ds_view
              /\ allocs' = allocs
              /\ "create_main_targets_raw" \notin {trace'[i] : i \in DOMAIN trace'}
         ELSE /\ color_view' # color_view
              /\ ds_view' # ds_view
              /\ allocs' = allocs + 1
              /\ RawOf(color_view').alloc = allocs'
              /\ RawOf(ds_view').alloc = allocs'
              /\ get_dimensions(color_view') = get_window_dimensions(window)
              /\ get_dimensions(ds_view') = get_window_dimensions(window)]_vars

\* update_views overwrote the pair once and, called again, left it alone
C2_Witness ==
    /\ lastOp = "update_views"
    /\ pc = "idle"
    /\ Len(trace) = 3
    /\ RawOf(color_view).alloc >= 2
    /\ RawOf(ds_view).alloc = RawOf(color_view).alloc

\* C3: update_views given a colour view and a depth-stencil view of different
\* Dimensions fails its assertion, before it reads the window's Dimensions,
\* allocates a target or modifies either handle.
C3_UpdateViewsRejectsMismatch ==
    [][(UpdateViews /\ get_dimensions(color_view) # get_dimensions(ds_view)) =>
         /\ pc' = "panicked"
         /\ result'.kind = "Panic"
         /\ color_view' = color_view
         /\ ds_view' = ds_view
         /\ allocs' = allocs
         /\ trace' = <<"get_dimensions", "assert_eq">>]_vars

\* update_views was called with views of different Dimensions
C3_Witness ==
    /\ lastOp = "update_views"
    /\ pc = "panicked"
    /\ get_dimensions(color_view) # get_dimensions(ds_view)

\* the views an init* entry point just returned have the window's Dimensions
InitViewsAtWindowDimensions ==
    (lastOp \in EntryPoints /\ pc = "idle") =>
        /\ get_dimensions(color_view) = WindowDimensions
        /\ get_dimensions(ds_view) = WindowDimensions
        /\ get_dimensions(result.val[1]) = WindowDimensions

C5_PairSharesDimensions ==
    /\ color_view # NoView =>
         /\ ds_view # NoView
         /\ get_dimensions(color_view) = get_dimensions(ds_view)
    /\ HasViews(result) =>
         get_dimensions(result.val[1]) = get_dimensions(result.val[2])
    /\ ~(lastOp = "update_views" /\ pc = "panicked")

\* update_views replaced the held pair after a resize
C5_Witness ==
    /\ lastOp = "update_views"
    /\ Len(trace) = 6
    /\ RawOf(color_view).alloc = allocs
    /\ RawOf(ds_view).alloc = allocs
    /\ get_dimensions(ds_view) = WindowDimensions

\* C6 as stated: every init* entry point returns a Result, the views or the
\* creation error.
C6_EveryInitReturnsResult ==
    (lastOp \in EntryPoints /\ pc \in {"idle", "returned"}) =>
        result.kind \in {"Ok", "Err"}

\* C6, amended: the creation error is returned as a value by init and init_raw,
\* it is the error build_windowed produced, build_windowed is called once and
\* nothing follows its failure; init_existing and init_existing_raw build
\* nothing and return the plain tuple, never an error.
C6_CreationErrorReturned ==
    /\ builds <= 1
    /\ build_result \in CreationErrors =>
         /\ entry \in BuildingEntryPoints
         /\ pc = "returned"
         /\ result = [kind |-> "Err", val |-> build_result]
         /\ builds = 1
         /\ trace = <<"configure", "build_windowed">>
    /\ result.kind = "Err" => build_result \in CreationErrors
    /\ entry \notin BuildingEntryPoints =>
         /\ builds = 0
         /\ result.kind \in {"Nothing", "Tuple", "Panic"}
         /\ pc = "idle" => result.kind = "Tuple"
    /\ (entry \in BuildingEntryPoints /\ pc = "idle") => result.kind = "Ok"

\* init returned the creation error of a failed build
C6_Witness ==
    /\ entry = "init"
    /\ pc = "returned"
    /\ build_result = "OsError"
    /\ result = [kind |-> "Err", val |-> "OsError"]

\* C7: new_views allocates a pair at the window's current Dimensions whatever
\* the Dimensions of earlier views; two calls with no resize in between yield
\* two distinct pairs of the same Dimensions, the window's.
C7_NewViewsAtWindowDimensions ==
    [][/\ lastOp' = "new_views" =>
            /\ result'.kind = "Pair"
            /\ get_dimensions(result'.val[1]) = get_window_dimensions(window')
            /\ get_dimensions(result'.val[2]) = get_window_dimensions(window')
       /\ (NewViews /\ lastOp = "new_views") =>
            /\ get_dimensions(result'.val[1]) = get_dimensions(result.val[1])
            /\ get_dimensions(result'.val[2]) = get_dimensions(result.val[2])
            /\ RawOf(result'.val[1]).alloc # RawOf(result.val[1]).alloc]_vars

\* new_views returned a pair whose Dimensions differ from the held views'
C7_Witness ==
    /\ lastOp = "new_views"
    /\ allocs >= 3
    /\ get_dimensions(result.val[1]) = WindowDimensions
    /\ get_dimensions(result.val[1]) # get_dimensions(color_view)

\* C8: with alpha bits A <= total bits T of the colour format and stencil bits
\* S <= total bits D of the depth-stencil format, init_raw requests T-A colour
\* bits, A alpha bits, D-S depth bits and S stencil bits, none of them wrapped.
C8_NegotiatedBits ==
    (/\ builds >= 1
     /\ color_format[1].alpha <= color_format[1].total
     /\ ds_format[1].alpha <= ds_format[1].total) =>
        /\ context.color = color_format[1].total - color_format[1].alpha
        /\ context.alpha = color_format[1].alpha
        /\ context.depth = ds_format[1].total - ds_format[1].alpha
        /\ context.stencil = ds_format[1].alpha
        /\ context.color + context.alpha = color_format[1].total
        /\ context.depth + context.stencil = ds_format[1].total

\* a 32-bit colour format with 8 alpha bits and a depth-stencil format that is
\* all stencil were requested
C8_Witness ==
    /\ builds = 1
    /\ color_format[1] = [total |-> 32, alpha |-> 8]
    /\ ds_format[1] = [total |-> 8, alpha |-> 8]
    /\ context.color = 24
    /\ context.depth = 0

\* C9: the sRGB flag init_raw requests is true iff the colour format's channel
\* type is Srgb.
C9_SrgbFlag ==
    builds >= 1 => (context.srgb <=> color_format[2] = "Srgb")

\* an Srgb colour format was requested with the sRGB flag set
C9_Witness ==
    /\ builds = 1
    /\ color_format[2] = "Srgb"
    /\ context.srgb

InitOrder(e) ==
    IF e \in BuildingEntryPoints
    THEN <<"configure", "build_windowed", "make_current", "device_gl::create",
           "get_window_dimensions", "create_main_targets_raw">>
    ELSE <<"make_current", "device_gl::create",
           "get_window_dimensions", "create_main_targets_raw">>

IsPrefix(s, t) == Len(s) <= Len(t) /\ \A i \in 1..Len(s) : s[i] = t[i]

\* C10: init_raw configures, builds, makes current, creates the device, reads
\* the window's Dimensions and allocates the targets, in that order; a failed
\* build ends the run with the creation error and none of the later steps; no
\* device is created and no target allocated on a context that is not current.
C10_InitOrder ==
    /\ IsPrefix(trace, InitOrder(entry))
    /\ pc = "idle" => trace = InitOrder(entry)
    /\ build_result \in CreationErrors =>
         /\ pc = "returned"
         /\ result.kind = "Err"
         /\ trace = <<"configure", "build_windowed">>
         /\ ctxState = "Unbuilt"
         /\ ~device
         /\ allocs = 0
         /\ color_view = NoView /\ ds_view = NoView
    /\ device => ctxState = "Current"
    /\ allocs > 0 => (device /\ ctxState = "Current")
    /\ ctxState # "Unbuilt" /\ entry \in BuildingEntryPoints =>
         (build_result = "Ok" /\ trace[1] = "configure")

\* init_raw ran to its end
C10_Witness ==
    /\ entry = "init_raw"
    /\ pc = "idle"
    /\ Len(trace) = 6
    /\ result.kind = "Ok"

=============================================================================
